---------------------------- MODULE Spec2Model ----------------------------
(***************************************************************************)
(* Model of examples/show_env.py: the script that prints the process       *)
(* environment, sorted by name, between a header and a footer.             *)
(*                                                                         *)
(* Text is modelled as a sequence of Unicode codepoints, so that Python's  *)
(* string comparison (codepoint order) and string concatenation are what   *)
(* the model computes.  Standard output is a character stream: print(s)    *)
(* appends the characters of s followed by one line feed.                  *)
(***************************************************************************)
EXTENDS Integers, Sequences, FiniteSets

VARIABLES
    environ,      \* os.environ: a function from names to values
    pc,           \* the source line about to execute, or "exited"
    stdout,       \* the characters written to standard output by this run
    printed,      \* history: the argument of every print call of this run
    items,        \* the list built by sorted(os.environ.items()) at line 17
    idx,          \* position of the for loop's iterator in items
    retval,       \* value returned by main(), -1 before it returns
    exit_status,  \* process exit status, -1 while the process is running
    stderr,       \* the characters written to standard error by this run
    stdin_read,   \* number of characters read from standard input
    run,          \* which launch of the script this is (1, 2, ...)
    prev_stdout   \* the complete standard output of the previous launch

vars == <<environ, pc, stdout, printed, items, idx, retval, exit_status,
          stderr, stdin_read, run, prev_stdout>>

--------------------------------------------------------------------------
(* Bounds of the model and the texts the environment is drawn from.        *)

MaxVars == 3          \* at most this many environment variables
MaxRuns == 2          \* the script is launched at most this many times

LF == 10              \* "\n", the end= of print
EQ == 61              \* "="

\* Variable names: "A", "AB", "PATH", "Z", "a".  A name is non-empty
\* and holds no "=" (the platform splits NAME=VALUE at the first "=").
Names == { <<65>>, <<65, 66>>, <<80, 65, 84, 72>>, <<90>>, <<97>> }

\* Variable values: "", "1", "a=b", "1\nB=2".
Values == { <<>>, <<49>>, <<97, 61, 98>>, <<49, 10, 66, 61, 50>> }

\* Every environment of at most MaxVars variables.
Environments ==
    UNION { [S -> Values] : S \in { T \in SUBSET Names : Cardinality(T) <= MaxVars } }

\* The orders in which the platform may enumerate the names of S.
Enumerations(S) ==
    { f \in [1..Cardinality(S) -> S] : \A i, j \in 1..Cardinality(S) : i # j => f[i] # f[j] }

--------------------------------------------------------------------------
(* Python's built-ins, as the script uses them.                            *)

\* Faulty variant of StrLess: the comparison folds ASCII case first (str.lower).
Lower(c) == IF c >= 65 /\ c <= 90 THEN c + 32 ELSE c
RECURSIVE StrLessIgnoreCase(_, _)
StrLessIgnoreCase(s, t) ==
    IF t = <<>> THEN FALSE
    ELSE IF s = <<>> THEN TRUE
    ELSE IF Lower(Head(s)) # Lower(Head(t)) THEN Lower(Head(s)) < Lower(Head(t))
    ELSE StrLessIgnoreCase(Tail(s), Tail(t))

\* str < str: lexicographic by codepoint, a proper prefix is smaller.
RECURSIVE StrLess(_, _)
StrLess(s, t) ==
    IF t = <<>> THEN FALSE
    ELSE IF s = <<>> THEN TRUE
    ELSE IF Head(s) # Head(t) THEN Head(s) < Head(t)
    ELSE StrLess(Tail(s), Tail(t))

\* Faulty variant of TupleLess: the order is reversed (sorted(..., reverse=True)).
TupleGreater(p, q) ==
    IF p[1] # q[1] THEN StrLess(q[1], p[1]) ELSE StrLess(q[2], p[2])

\* tuple < tuple for (key, value) pairs: the first differing component decides.
TupleLess(p, q) ==
    IF p[1] # q[1] THEN StrLess(p[1], q[1]) ELSE StrLess(p[2], q[2])

\* list.sort's merge step for one element: x goes before the first element
\* that is greater than it (the sort is stable).
RECURSIVE Insert(_, _)
Insert(x, s) ==
    IF s = <<>> THEN <<x>>
    ELSE IF TupleLess(x, Head(s)) THEN <<x>> \o s
    ELSE <<Head(s)>> \o Insert(x, Tail(s))

RECURSIVE SortInto(_, _)
SortInto(lst, acc) ==
    IF lst = <<>> THEN acc ELSE SortInto(Tail(lst), Insert(Head(lst), acc))

\* Faulty variant of sorted: keys and values are sorted apart and zipped back,
\* zip(sorted(keys), sorted(values)).
SortedKeysAndValuesApart(lst) ==
    LET keys == SortInto([i \in 1..Len(lst) |-> <<lst[i][1], <<>>>>], <<>>)
        vals == SortInto([i \in 1..Len(lst) |-> <<lst[i][2], <<>>>>], <<>>)
    IN  [i \in 1..Len(lst) |-> <<keys[i][1], vals[i][1]>>]

\* Faulty variant of sorted: the entries are left in the platform's order.
Unsorted(lst) == lst

\* sorted(iterable): a new ascending list of the iterable's elements.
sorted(lst) == SortInto(lst, <<>>)

\* os.environ.items(), enumerated in the platform's order ord.
environ_items(ord) == [i \in 1..Len(ord) |-> <<ord[i], environ[ord[i]]>>]

\* Faulty variant of environ_len: variables with an empty value are not counted.
environ_len_nonempty == Cardinality({k \in DOMAIN environ : environ[k] # <<>>})

\* len(os.environ)
environ_len == Cardinality(DOMAIN environ)

\* Faulty variant of IntToStr: the digit loop "while n > 0" yields "" for zero.
RECURSIVE IntToStrNoZero(_)
IntToStrNoZero(n) ==
    IF n = 0 THEN <<>> ELSE IntToStrNoZero(n \div 10) \o <<48 + (n % 10)>>

\* str(n) for n >= 0, as the f-string of line 22 formats the count.
RECURSIVE IntToStr(_)
IntToStr(n) ==
    IF n < 10 THEN <<48 + n>> ELSE IntToStr(n \div 10) \o <<48 + (n % 10)>>

\* Faulty variant of Banner: one "=" short.
BannerShort == [i \in 1..59 |-> 61]

\* "=" * 60
BannerWidth == 60
Banner == [i \in 1..BannerWidth |-> EQ]

\* "All Environment Variables"
Title == <<65, 108, 108, 32, 69, 110, 118, 105, 114, 111, 110, 109, 101, 110,
           116, 32, 86, 97, 114, 105, 97, 98, 108, 101, 115>>

\* Faulty variant of FormatEntry: the value is quoted, f'{key}="{value}"'.
FormatEntryQuoted(key, value) == key \o <<61, 34>> \o value \o <<34>>

\* f"{key}={value}"
FormatEntry(key, value) == key \o <<EQ>> \o value

\* f"Total: {n} environment variables"
FormatTotal(n) ==
    <<84, 111, 116, 97, 108, 58, 32>> \o IntToStr(n)
    \o <<32, 101, 110, 118, 105, 114, 111, 110, 109, 101, 110, 116, 32,
         118, 97, 114, 105, 97, 98, 108, 101, 115>>

\* print(s): s and a line feed are appended to standard output.
print(s) ==
    /\ stdout' = stdout \o s \o <<LF>>
    /\ printed' = Append(printed, s)

\* Faulty variant of ReturnValue: main returns the count, which becomes the status.
ReturnCount == Cardinality(DOMAIN environ)

\* main's return value
ReturnValue == 0

--------------------------------------------------------------------------
(* The script, one action per statement.                                   *)

Init ==
    /\ environ \in Environments
    /\ pc = "L11"
    /\ stdout = <<>>
    /\ printed = <<>>
    /\ items = <<>>
    /\ idx = 0
    /\ retval = -1
    /\ exit_status = -1
    /\ stderr = <<>>
    /\ stdin_read = 0
    /\ run = 1
    /\ prev_stdout = <<>>

\* line 11: print("=" * 60)
main_L11 ==
    /\ pc = "L11"
    /\ print(Banner)
    /\ pc' = "L12"
    /\ UNCHANGED <<environ, items, idx, retval, exit_status, stderr, stdin_read, run, prev_stdout>>

\* line 12: print("All Environment Variables")
main_L12 ==
    /\ pc = "L12"
    /\ print(Title)
    /\ pc' = "L13"
    /\ UNCHANGED <<environ, items, idx, retval, exit_status, stderr, stdin_read, run, prev_stdout>>

\* line 13: print("=" * 60)
main_L13 ==
    /\ pc = "L13"
    /\ print(Banner)
    /\ pc' = "L14"
    /\ UNCHANGED <<environ, items, idx, retval, exit_status, stderr, stdin_read, run, prev_stdout>>

\* line 14: print()
main_L14 ==
    /\ pc = "L14"
    /\ print(<<>>)
    /\ pc' = "L17"
    /\ UNCHANGED <<environ, items, idx, retval, exit_status, stderr, stdin_read, run, prev_stdout>>

\* line 17: the for statement evaluates sorted(os.environ.items()) once; the
\* platform hands the entries over in some order.
main_L17_sorted ==
    /\ pc = "L17"
    /\ \E ord \in Enumerations(DOMAIN environ) :
           items' = sorted(environ_items(ord))
    /\ idx' = 1
    /\ pc' = "L17_next"
    /\ UNCHANGED <<environ, stdout, printed, retval, exit_status, stderr, stdin_read, run, prev_stdout>>

\* Faulty variant of main_L18_print: the body consumes the variable it prints
\* (os.environ.pop(key)).
main_L18_print_pop ==
    /\ pc = "L17_next"
    /\ idx <= Len(items)
    /\ print(items[idx][1] \o <<61>> \o items[idx][2])
    /\ idx' = idx + 1
    /\ environ' = [k \in DOMAIN environ \ {items[idx][1]} |-> environ[k]]
    /\ UNCHANGED <<pc, items, retval, exit_status, stderr, stdin_read, run, prev_stdout>>

\* lines 17-18: the iterator yields the next (key, value) and the body prints it.
main_L18_print ==
    /\ pc = "L17_next"
    /\ idx <= Len(items)
    /\ print(FormatEntry(items[idx][1], items[idx][2]))
    /\ idx' = idx + 1
    /\ UNCHANGED <<environ, pc, items, retval, exit_status, stderr, stdin_read, run, prev_stdout>>

\* line 17: the iterator is exhausted, the loop ends.
main_L17_exhausted ==
    /\ pc = "L17_next"
    /\ idx > Len(items)
    /\ pc' = "L20"
    /\ UNCHANGED <<environ, stdout, printed, items, idx, retval, exit_status, stderr, stdin_read, run, prev_stdout>>

\* line 20: print()
main_L20 ==
    /\ pc = "L20"
    /\ print(<<>>)
    /\ pc' = "L21"
    /\ UNCHANGED <<environ, items, idx, retval, exit_status, stderr, stdin_read, run, prev_stdout>>

\* line 21: print("=" * 60)
main_L21 ==
    /\ pc = "L21"
    /\ print(Banner)
    /\ pc' = "L22"
    /\ UNCHANGED <<environ, items, idx, retval, exit_status, stderr, stdin_read, run, prev_stdout>>

\* line 22: print(f"Total: {len(os.environ)} environment variables")
main_L22 ==
    /\ pc = "L22"
    /\ print(FormatTotal(environ_len))
    /\ pc' = "L23"
    /\ UNCHANGED <<environ, items, idx, retval, exit_status, stderr, stdin_read, run, prev_stdout>>

\* line 23: print("=" * 60)
main_L23 ==
    /\ pc = "L23"
    /\ print(Banner)
    /\ pc' = "L25"
    /\ UNCHANGED <<environ, items, idx, retval, exit_status, stderr, stdin_read, run, prev_stdout>>

\* line 25: return 0
main_L25_return ==
    /\ pc = "L25"
    /\ retval' = ReturnValue
    /\ pc' = "L28"
    /\ UNCHANGED <<environ, stdout, printed, items, idx, exit_status, stderr, stdin_read, run, prev_stdout>>

\* line 28: sys.exit(main()) with an integer argument ends the process with
\* that status and writes nothing.
sys_exit ==
    /\ pc = "L28"
    /\ exit_status' = retval
    /\ pc' = "exited"
    /\ UNCHANGED <<environ, stdout, printed, items, idx, retval, stderr, stdin_read, run, prev_stdout>>

\* lines 27-28: the script is launched again in the same, unchanged
\* environment; the new process starts with empty streams.
Relaunch ==
    /\ pc = "exited"
    /\ run < MaxRuns
    /\ run' = run + 1
    /\ prev_stdout' = stdout
    /\ pc' = "L11"
    /\ stdout' = <<>>
    /\ printed' = <<>>
    /\ items' = <<>>
    /\ idx' = 0
    /\ retval' = -1
    /\ exit_status' = -1
    /\ stderr' = <<>>
    /\ stdin_read' = 0
    /\ UNCHANGED environ

\* One statement of the running script.
Step ==
    \/ main_L11
    \/ main_L12
    \/ main_L13
    \/ main_L14
    \/ main_L17_sorted
    \/ main_L18_print
    \/ main_L17_exhausted
    \/ main_L20
    \/ main_L21
    \/ main_L22
    \/ main_L23
    \/ main_L25_return
    \/ sys_exit

Next == Step \/ Relaunch

Spec == Init /\ [][Next]_vars

\* The interpreter keeps executing the script's statements until it exits.
FairSpec == Init /\ [][Next]_vars /\ WF_vars(Step)

--------------------------------------------------------------------------
(* The report as the specification describes it, read off standard output. *)

Done == pc = "exited"

IsPrefix(s, t) == Len(s) <= Len(t) /\ SubSeq(t, 1, Len(s)) = s

\* The lines of a text: the pieces ended by a line feed (and a last piece
\* without one, if any).
NextLF(s, start) ==
    CHOOSE i \in start..Len(s) : s[i] = 10 /\ \A j \in start..(i - 1) : s[j] # 10
RECURSIVE SplitFrom(_, _)
SplitFrom(s, start) ==
    IF start > Len(s) THEN <<>>
    ELSE IF \E i \in start..Len(s) : s[i] = 10
         THEN <<SubSeq(s, start, NextLF(s, start) - 1)>> \o SplitFrom(s, NextLF(s, start) + 1)
         ELSE <<SubSeq(s, start, Len(s))>>

SplitLines(s) == SplitFrom(s, 1)

\* The lines on standard output; the body is what lies between the four
\* header lines and the four footer lines.
OutLines == SplitLines(stdout)
BodyLines == SubSeq(OutLines, 5, Len(OutLines) - 4)

\* The entries printed: the arguments of the print calls between the four
\* header calls and the four footer calls.
BodyEntries == SubSeq(printed, 5, Len(printed) - 4)

\* NAME and VALUE of a line NAME=VALUE: what precedes and what follows its
\* first "=".
FirstEq(line) ==
    IF \E i \in 1..Len(line) : line[i] = 61
    THEN CHOOSE i \in 1..Len(line) : line[i] = 61 /\ \A j \in 1..(i - 1) : line[j] # 61
    ELSE Len(line) + 1
NameOf(line) == SubSeq(line, 1, FirstEq(line) - 1)
ValueOf(line) == SubSeq(line, FirstEq(line) + 1, Len(line))

\* Codepoint order on texts: at the first position where they differ the
\* smaller codepoint wins, and a proper prefix comes first.
CodepointLess(s, t) ==
    \E k \in 1..(Len(s) + 1) :
        /\ k <= Len(t)
        /\ \A j \in 1..(k - 1) : s[j] = t[j]
        /\ (k = Len(s) + 1 \/ s[k] < t[k])

\* The names of S in ascending codepoint order: the i-th is the one with
\* i - 1 smaller names.
NamesAscending(S) ==
    [i \in 1..Cardinality(S) |->
        CHOOSE x \in S : Cardinality({y \in S : CodepointLess(y, x)}) = i - 1]

\* A decimal numeral and its value.
RECURSIVE Decimal(_)
Decimal(n) == IF n < 10 THEN <<48 + n>> ELSE Decimal(n \div 10) \o <<48 + (n % 10)>>
RECURSIVE NumeralValue(_)
NumeralValue(d) ==
    IF d = <<>> THEN 0 ELSE 10 * NumeralValue(SubSeq(d, 1, Len(d) - 1)) + (d[Len(d)] - 48)

\* The fixed lines of the report.
SpecBanner == [i \in 1..60 |-> 61]
SpecTitle == <<65, 108, 108, 32, 69, 110, 118, 105, 114, 111, 110, 109, 101,
               110, 116, 32, 86, 97, 114, 105, 97, 98, 108, 101, 115>>
SpecTotalPrefix == <<84, 111, 116, 97, 108, 58, 32>>
SpecTotalSuffix == <<32, 101, 110, 118, 105, 114, 111, 110, 109, 101, 110, 116,
                     32, 118, 97, 114, 105, 97, 98, 108, 101, 115>>
SpecTotalLine(n) == SpecTotalPrefix \o Decimal(n) \o SpecTotalSuffix

\* The number N printed in the summary line, the last line but one; -1 when
\* that line is not a summary line.
TotalPrinted ==
    LET n == Len(OutLines)
        line == IF n >= 2 THEN OutLines[n - 1] ELSE <<>>
        lo == Len(SpecTotalPrefix)
        hi == Len(line) - Len(SpecTotalSuffix)
    IN  IF /\ lo < hi
           /\ SubSeq(line, 1, lo) = SpecTotalPrefix
           /\ SubSeq(line, hi + 1, Len(line)) = SpecTotalSuffix
           /\ \A i \in (lo + 1)..hi : line[i] \in 48..57
        THEN NumeralValue(SubSeq(line, lo + 1, hi))
        ELSE -1

\* The whole report for environment E, as a character stream.
HeaderStream == SpecBanner \o <<10>> \o SpecTitle \o <<10>> \o SpecBanner \o <<10, 10>>
FooterStream(n) ==
    <<10>> \o SpecBanner \o <<10>> \o SpecTotalLine(n) \o <<10>> \o SpecBanner \o <<10>>
RECURSIVE EntriesStream(_, _, _)
EntriesStream(E, names, i) ==
    IF i > Len(names) THEN <<>>
    ELSE names[i] \o <<61>> \o E[names[i]] \o <<10>> \o EntriesStream(E, names, i + 1)
BodyStream(E) == EntriesStream(E, NamesAscending(DOMAIN E), 1)
ReportStream(E) == HeaderStream \o BodyStream(E) \o FooterStream(Cardinality(DOMAIN E))

\* Line feeds inside a text, and inside the names and values of E.
LineFeeds(s) == Cardinality({i \in 1..Len(s) : s[i] = 10})
RECURSIVE LineFeedsIn(_, _)
LineFeedsIn(E, S) ==
    IF S = {} THEN 0
    ELSE LET k == CHOOSE x \in S : TRUE
         IN  LineFeeds(k) + LineFeeds(E[k]) + LineFeedsIn(E, S \ {k})
NoLineFeed(E) == LineFeedsIn(E, DOMAIN E) = 0

NumVars == Cardinality(DOMAIN environ)

--------------------------------------------------------------------------
(* C1.  As stated: when a run has exited, the body holds exactly as many   *)
(* lines as there are environment variables, and the number printed in the *)
(* summary line is that same count.                                        *)
C1_BodyLineCountIsNumVars ==
    Done => /\ Len(BodyLines) = NumVars
            /\ TotalPrinted = NumVars

(* C1, amended.  When a run has exited, the loop has printed exactly one   *)
(* entry per environment variable and the summary line prints that same    *)
(* count; the body holds as many lines as there are variables plus the     *)
(* line feeds contained in their names and values, hence exactly one line  *)
(* per variable when no name or value contains a line feed.                *)
C1_EntryCountIsNumVars ==
    Done => /\ Len(BodyEntries) = NumVars
            /\ idx - 1 = NumVars
            /\ TotalPrinted = NumVars
            /\ Len(BodyLines) = NumVars + LineFeedsIn(environ, DOMAIN environ)
            /\ (NoLineFeed(environ) => Len(BodyLines) = NumVars)

C1_Witness ==
    /\ Done
    /\ NumVars = 3
    /\ TotalPrinted = 3
    /\ Len(BodyEntries) = 3
    /\ \E k \in DOMAIN environ : environ[k] = <<>>

(* C2.  As stated: when a run has exited, the NAME of every body line is   *)
(* strictly smaller, in codepoint order, than the NAME of the next body    *)
(* line.                                                                   *)
C2_BodyLinesAscending ==
    Done => \A i \in 1..(Len(BodyLines) - 1) :
                CodepointLess(NameOf(BodyLines[i]), NameOf(BodyLines[i + 1]))

(* C2, amended.  When a run has exited, the NAME of every printed entry is *)
(* strictly smaller than the NAME of the next printed entry, so no NAME is *)
(* printed as an entry twice; when no name or value contains a line feed   *)
(* the same holds of every two consecutive body lines.                     *)
C2_EntriesAscending ==
    Done => /\ \A i \in 1..(Len(BodyEntries) - 1) :
                   CodepointLess(NameOf(BodyEntries[i]), NameOf(BodyEntries[i + 1]))
            /\ \A i, j \in 1..Len(BodyEntries) :
                   i # j => NameOf(BodyEntries[i]) # NameOf(BodyEntries[j])
            /\ NoLineFeed(environ) =>
                   \A i \in 1..(Len(BodyLines) - 1) :
                       CodepointLess(NameOf(BodyLines[i]), NameOf(BodyLines[i + 1]))

C2_Witness ==
    /\ Done
    /\ NumVars = 3
    /\ NoLineFeed(environ)
    /\ Len(BodyLines) = 3
    /\ CodepointLess(NameOf(BodyLines[1]), NameOf(BodyLines[2]))
    /\ CodepointLess(NameOf(BodyLines[2]), NameOf(BodyLines[3]))

(* C3.  Standard output is at every moment a prefix of the report: banner  *)
(* of 60 "=", title, banner, blank line, the entries, blank line, banner,  *)
(* summary, banner.  While the header statements run nothing beyond the    *)
(* header has been written, the entries are written only after the whole   *)
(* header and before any of the footer, and at exit the output is exactly  *)
(* the report, with nothing after the final banner.                        *)
C3_ReportStructure ==
    LET header == Len(HeaderStream)
        body == Len(BodyStream(environ))
    IN  /\ IsPrefix(stdout, ReportStream(environ))
        /\ pc \in {"L11", "L12", "L13", "L14"} => Len(stdout) < header
        /\ pc = "L17" => Len(stdout) = header
        /\ pc = "L17_next" => Len(stdout) >= header /\ Len(stdout) <= header + body
        /\ pc \in {"L20", "L21", "L22", "L23"} => Len(stdout) >= header + body
        /\ pc \in {"L25", "L28", "exited"} => stdout = ReportStream(environ)

C3_Witness ==
    /\ Done
    /\ NumVars = 3
    /\ stdout = ReportStream(environ)
    /\ Len(OutLines) >= 11
    /\ OutLines[1] = SpecBanner
    /\ OutLines[Len(OutLines)] = SpecBanner

(* C4.  When the script is launched again in the unchanged environment and *)
(* that run has exited, its standard output is, character for character,   *)
(* the standard output of the previous run, whichever order the platform   *)
(* enumerated the entries in either time.                                  *)
C4_SameOutputOnRelaunch ==
    (Done /\ run > 1) => stdout = prev_stdout

C4_Witness ==
    /\ Done
    /\ run = 2
    /\ NumVars = 3
    /\ stdout = prev_stdout
    /\ Len(stdout) > Len(HeaderStream)

(* C5.  When a run has exited, every variable (name, value) has been       *)
(* printed as the entry name, "=", value with nothing added or changed:    *)
(* the entry is as long as name and value plus one, what precedes its      *)
(* first "=" is the name and what follows it is the value, also when the   *)
(* value contains "=" or is empty.                                         *)
C5_RawConcatenation ==
    Done => \A k \in DOMAIN environ :
                \E i \in 1..Len(BodyEntries) :
                    /\ BodyEntries[i] = k \o <<61>> \o environ[k]
                    /\ Len(BodyEntries[i]) = Len(k) + 1 + Len(environ[k])
                    /\ NameOf(BodyEntries[i]) = k
                    /\ ValueOf(BodyEntries[i]) = environ[k]

C5_Witness ==
    /\ Done
    /\ \E k \in DOMAIN environ :
           /\ environ[k] = <<97, 61, 98>>
           /\ \E i \in 1..Len(BodyEntries) : BodyEntries[i] = k \o <<61, 97, 61, 98>>
    /\ \E k \in DOMAIN environ :
           /\ environ[k] = <<>>
           /\ \E i \in 1..Len(BodyEntries) : BodyEntries[i] = k \o <<61>>

(* C6.  When a run has exited, the names of the printed entries, in the    *)
(* order printed, are the names of the environment in ascending codepoint  *)
(* order, a sequence the names alone determine; every name made of         *)
(* uppercase ASCII letters is printed before every name made of lowercase  *)
(* ASCII letters.                                                          *)
IsUpperName(n) == \A i \in 1..Len(n) : n[i] \in 65..90
IsLowerName(n) == \A i \in 1..Len(n) : n[i] \in 97..122
C6_CaseSensitiveCodepointOrder ==
    Done => /\ [i \in 1..Len(BodyEntries) |-> NameOf(BodyEntries[i])]
                = NamesAscending(DOMAIN environ)
            /\ \A i, j \in 1..Len(BodyEntries) :
                   (IsUpperName(NameOf(BodyEntries[i])) /\ IsLowerName(NameOf(BodyEntries[j])))
                       => i < j

C6_Witness ==
    /\ Done
    /\ DOMAIN environ = { <<80, 65, 84, 72>>, <<90>>, <<97>> }
    /\ Len(BodyEntries) = 3
    /\ NameOf(BodyEntries[1]) = <<80, 65, 84, 72>>
    /\ NameOf(BodyEntries[2]) = <<90>>
    /\ NameOf(BodyEntries[3]) = <<97>>
    /\ CodepointLess(environ[<<97>>], environ[<<90>>])
    /\ CodepointLess(environ[<<90>>], environ[<<80, 65, 84, 72>>])

(* C7.  When a run in the empty environment has exited, standard output is *)
(* exactly eight lines: banner, title, banner, a blank line, another blank *)
(* line, banner, "Total: 0 environment variables", banner.                 *)
C7_EmptyEnvironment ==
    (Done /\ DOMAIN environ = {}) =>
        /\ OutLines = << SpecBanner, SpecTitle, SpecBanner, <<>>, <<>>, SpecBanner,
                         <<84, 111, 116, 97, 108, 58, 32, 48, 32, 101, 110, 118, 105,
                           114, 111, 110, 109, 101, 110, 116, 32, 118, 97, 114, 105,
                           97, 98, 108, 101, 115>>,
                         SpecBanner >>
        /\ stdout[Len(stdout)] = 10

C7_Witness ==
    /\ Done
    /\ DOMAIN environ = {}
    /\ Len(OutLines) = 8
    /\ OutLines[4] = <<>>
    /\ OutLines[5] = <<>>
    /\ TotalPrinted = 0

(* C8.  Every run that starts reaches the exited state; control only moves *)
(* start -> header -> entries -> footer -> exit; at exit the entry loop    *)
(* has run exactly once per environment variable and the exit status is 0; *)
(* the exit status is never anything but 0.                                *)
ControlFlow ==
    { <<"L11", "L12">>, <<"L12", "L13">>, <<"L13", "L14">>, <<"L14", "L17">>,
      <<"L17", "L17_next">>, <<"L17_next", "L20">>, <<"L20", "L21">>,
      <<"L21", "L22">>, <<"L22", "L23">>, <<"L23", "L25">>, <<"L25", "L28">>,
      <<"L28", "exited">>, <<"exited", "L11">> }
C8_TerminatesWithStatusZero ==
    /\ [](exit_status \in {-1, 0})
    /\ [](Done => (exit_status = 0 /\ idx - 1 = NumVars /\ Len(BodyEntries) = NumVars))
    /\ [][pc' # pc => <<pc, pc'>> \in ControlFlow]_vars
    /\ (pc = "L11") ~> Done

C8_Witness ==
    /\ Done
    /\ exit_status = 0
    /\ NumVars = 3
    /\ idx = 4
    /\ Len(BodyEntries) = 3

(* C9.  No step changes the environment, writes to standard error or reads *)
(* standard input, and within a run every step leaves what is already on   *)
(* standard output in place, only appending to it.                         *)
C9_OnlyStdoutGrows ==
    [][ /\ environ' = environ
        /\ stderr = <<>> /\ stderr' = <<>>
        /\ stdin_read = 0 /\ stdin_read' = 0
        /\ run' = run => IsPrefix(stdout, stdout') ]_vars

C9_Witness ==
    /\ Done
    /\ run = 2
    /\ NumVars = 3
    /\ Len(stdout) > Len(HeaderStream)
    /\ stderr = <<>>
    /\ stdin_read = 0

(* C10.  As stated: when a run has exited, every variable (name, value) is *)
(* exactly one body line name=value, and every body line is name=value for *)
(* a variable of the environment.                                          *)
C10_BodyLinesAreTheEnvironment ==
    Done => /\ \A k \in DOMAIN environ :
                   Cardinality({i \in 1..Len(BodyLines) :
                                    BodyLines[i] = k \o <<61>> \o environ[k]}) = 1
            /\ \A i \in 1..Len(BodyLines) :
                   \E k \in DOMAIN environ : BodyLines[i] = k \o <<61>> \o environ[k]

(* C10, amended.  When a run has exited, every variable (name, value) is   *)
(* exactly one printed entry name=value and every printed entry is         *)
(* name=value for a variable of the environment, each name next to its own *)
(* value; the sorted list of (name, value) pairs is the list of the names  *)
(* in ascending order, each with its value; when no name or value contains *)
(* a line feed the body lines are exactly the printed entries.             *)
C10_EntriesAreTheEnvironment ==
    Done => /\ Len(BodyEntries) = NumVars
            /\ \A k \in DOMAIN environ :
                   Cardinality({i \in 1..Len(BodyEntries) :
                                    BodyEntries[i] = k \o <<61>> \o environ[k]}) = 1
            /\ \A i \in 1..Len(BodyEntries) :
                   /\ NameOf(BodyEntries[i]) \in DOMAIN environ
                   /\ ValueOf(BodyEntries[i]) = environ[NameOf(BodyEntries[i])]
            /\ items = [i \in 1..NumVars |->
                           << NamesAscending(DOMAIN environ)[i],
                              environ[NamesAscending(DOMAIN environ)[i]] >>]
            /\ NoLineFeed(environ) => BodyLines = BodyEntries

C10_Witness ==
    /\ Done
    /\ NumVars = 3
    /\ NoLineFeed(environ)
    /\ BodyLines = BodyEntries
    /\ CodepointLess(items[3][2], items[2][2])
    /\ CodepointLess(items[2][2], items[1][2])

==========================================================================
